---- MODULE Spec2Model ----
(***************************************************************************)
(* Level Zero discovery backend of hwloc (src/hwloc/topology-levelzero.c). *)
(* One discovery pass: hwloc_levelzero_discover enumerates drivers,        *)
(* devices and subdevices, captures fabric ports, then builds and commits  *)
(* the XeLinkBandwidth matrix.  The driver (ze*/zes* calls) and malloc are *)
(* the environment: every result they can return is drawn with \E.         *)
(***************************************************************************)
EXTENDS Integers, Sequences, FiniteSets, TLC

\* ---------------------------------------------------------------- bounds
MaxDrivers == 1
MaxSub == 2
MaxSize == 5
MaxMems == 2
MaxMemSub == 1

\* ------------------------------------------------------ program constants
ArrayGrowth == 40
PortGrowthFactor == 8
LocalBandwidth == 1000000
MBShift == 20
KBShift == 10

\* ------------------------------------------------------------- utilities
RECURSIVE Pow2(_)
Pow2(n) == IF n = 0 THEN 1 ELSE 2 * Pow2(n - 1)

\* x >> n on a non-negative value
ShiftRight(x, n) == x \div Pow2(n)

Min(a, b) == IF a < b THEN a ELSE b

\* snprintf(tmp, sizeof(tmp), "%u", n): the decimal digits of n, most significant first
RECURSIVE FormatUnsigned(_)
FormatUnsigned(n) ==
  IF n < 10 THEN <<n>> ELSE Append(FormatUnsigned(n \div 10), n % 10)

\* atoi(s) on a string of decimal digits
RECURSIVE Atoi(_)
Atoi(s) ==
  IF s = <<>> THEN 0
  ELSE 10 * Atoi(SubSeq(s, 1, Len(s) - 1)) + s[Len(s)]

\* ------------------------------------------------------- object pointers
\* hwloc_obj_t values.  NULL is 0, a wild (non-object) pointer is Junk, the
\* osdev of the d-th device handle is Osdev(d) and its k-th subdevice is
\* SubOsdev(d, k).
NULL == 0
Junk == 0 - 1
Stride == MaxSub + 1
Osdev(d) == d * Stride
SubOsdev(d, k) == d * Stride + k + 1
IsObject(o) == o >= Stride
IsDeviceObj(o) == IsObject(o) /\ o % Stride = 0
IsSubObj(o) == IsObject(o) /\ o % Stride # 0
OwnerOf(o) == (o \div Stride) * Stride

VARIABLES
  pc,          \* position of the pass
  noDistances, \* HWLOC_TOPOLOGY_FLAG_NO_DISTANCES of the topology
  nbdrivers, drv, nbdevices, dev, zeidx, added,  \* locals of devices_get
  devSeen,     \* device handles walked so far (names the objects)
  subSeen,     \* subdevice handles obtained so far
  nr_subdevices, subosdevs, ksub,  \* per-device locals of devices_get
  heapOld,     \* content of the last freed subosdevs block
  tree,        \* nodes inserted by hwloc_insert_object_by_parent, in order: <<obj, parent>>
  info,        \* LevelZeroSubdevices attribute: obj -> digit string
  oarray,      \* struct hwloc_osdev_array
  hports,      \* struct hwloc_levelzero_ports
  portSeq, nr_new, pidx,  \* ports enumerated so far; locals of ports_get
  bws,         \* the matrix buffer
  acc,         \* the matrix before the synthetic fill
  step,        \* the last step ports_connect reached
  gotbw, filled, heap, connectRet, dataset, backendInfo, discoverRet,
  faults,      \* driver and allocator answers that deviated from the nominal one
  created,     \* objects set up by hwloc_alloc_setup_object
  dropped,     \* objects whose osdev_array_add failed
  driverq,     \* how the driver listing ended: "", "none", "mismatch", "failed", "ok"
  mem,         \* one call of hwloc__levelzero_memory_get: arguments, locals, attributes
  twin,        \* subosdevs, freed block and registry of a second pass given the same answers
  prior        \* size of the part of the pass that precedes the initial state

vars == <<pc, noDistances, nbdrivers, drv, nbdevices, dev, zeidx, added, devSeen, subSeen,
          nr_subdevices, subosdevs, ksub, heapOld, tree, info, oarray, hports,
          portSeq, nr_new, pidx, bws, acc, step, gotbw, filled, heap, connectRet, dataset,
          backendInfo, discoverRet, faults, created, dropped, driverq, mem, twin, prior>>

enumVars == <<nbdrivers, drv, nbdevices, dev, zeidx, added, devSeen, subSeen>>
histVars == <<created, dropped, driverq>>
subVars == <<nr_subdevices, subosdevs, ksub, heapOld>>
topoVars == <<tree, info, oarray>>
portVars == <<hports, portSeq, nr_new, pidx>>
connVars == <<bws, acc, step, gotbw, filled, heap, connectRet, dataset>>

\* ------------------------------------------------------- Device Registry
\* hwloc__levelzero_osdev_array_init
osdev_array_init == [nr |-> 0, nr_allocated |-> 0, objs |-> <<>>, objsPtr |-> "null"]

\* hwloc__levelzero_osdev_array_add; reallocOK is the result of realloc
osdev_array_add(array, new, reallocOK) ==
  IF array.nr_allocated = array.nr /\ ~reallocOK
  THEN array
  ELSE [nr |-> array.nr + 1,
        nr_allocated |-> IF array.nr_allocated = array.nr
                         THEN array.nr_allocated + ArrayGrowth
                         ELSE array.nr_allocated,
        objs |-> Append(array.objs, new),
        objsPtr |-> "valid"]

\* hwloc__levelzero_osdev_array_find: first index (0-based) holding osdev, or -1
osdev_array_find(array, osdev) ==
  LET hits == {i \in 1..array.nr : array.objs[i] = osdev}
  IN IF hits = {} THEN 0 - 1
     ELSE (CHOOSE i \in hits : \A h \in hits : i <= h) - 1

\* ------------------------------------------------------------------ Init
UninitPort ==
  [osdev |-> NULL, parent_osdev |-> NULL, propsOf |-> 0, stateOf |-> 0,
   onSubdevice |-> FALSE, subdeviceId |-> 0, portId |-> <<0, 0, 0>>,
   model |-> "", status |-> "UNKNOWN", remotePortId |-> <<0, 0, 0>>, bitRate |-> 0]

\* the state before the pass, pc and mem left open
Fresh ==
  /\ noDistances = FALSE
  /\ nbdrivers = 0 /\ drv = 0 /\ nbdevices = 0 /\ dev = 0 /\ zeidx = 0 /\ added = 0
  /\ devSeen = 0 /\ subSeen = 0
  /\ nr_subdevices = 0 /\ subosdevs = <<>> /\ ksub = 0 /\ heapOld = <<>>
  /\ tree = <<>>
  /\ info = <<>>
  /\ oarray = osdev_array_init
  /\ hports = [nr_allocated |-> 0, nr |-> 0, ports |-> <<>>]
  /\ portSeq = 0 /\ nr_new = 0 /\ pidx = 0
  /\ bws = <<>> /\ acc = <<>> /\ step = "" /\ gotbw = 0 /\ filled = {}
  /\ heap = [bws |-> "none", objs |-> "none", overrun |-> FALSE]
  /\ connectRet = 0 /\ dataset = "none"
  /\ backendInfo = FALSE /\ discoverRet = 1
  /\ faults = 0
  /\ created = {} /\ dropped = {} /\ driverq = ""
  /\ twin = [subosdevs |-> <<>>, heapOld |-> <<>>, oarray |-> osdev_array_init]
  /\ prior = 0

\* no call of memory_get in progress
MemIdle ==
  [pc |-> "idle", nr_osdevs |-> 0, sub_osdevs |-> <<>>, nr_mems |-> 0, m |-> 0,
   totalHBMkB |-> 0, totalDDRkB |-> 0, modules |-> <<>>, attrs |-> <<>>, ret |-> 0]

Init == pc = "init" /\ Fresh /\ mem = MemIdle

\* hwloc_obj_get_info_by_name(obj, "LevelZeroSubdevices") followed by atoi, 0 if absent
SubdevicesOf(obj) == IF obj \in DOMAIN info THEN Atoi(info[obj]) ELSE 0

\* answers of the driver and of the allocator that differ from the nominal
\* one (success, healthy XeLink port at the nominal rate) are counted in
\* faults, except those of the realloc of the registry, which can fail only
\* while the registry is full (empty, here), and those that end the pass.  The size of a pass is the number of device handles, subdevice
\* handles, fabric ports and such answers in it, at most MaxSize; a
\* specification that starts within a pass does not count what came before.
Cost(b) == IF b THEN 1 ELSE 0
Used == devSeen + (nbdevices - dev) + subSeen + portSeq + (nr_new - pidx) + faults - prior

\* --------------------------------------------------- hwloc_levelzero_discover
\* entry of the pass up to the call of devices_get
DiscoverBegin ==
  /\ pc = "init"
  /\ \E keepNone \in BOOLEAN, zeInitOK \in BOOLEAN, zesInitOK \in BOOLEAN, flag \in BOOLEAN :
       /\ noDistances' = flag
       /\ IF keepNone \/ ~zeInitOK \/ ~zesInitOK
          THEN pc' = "done" /\ discoverRet' = 0
          ELSE pc' = "drivers" /\ UNCHANGED discoverRet
  /\ UNCHANGED <<prior, mem, twin, enumVars, subVars, topoVars, portVars, connVars, backendInfo, faults,
                 histVars>>

\* --------------------------------------------- hwloc__levelzero_devices_get
\* faulty variant of DriverGet: the two driver counts are not compared
DriverGetNoCompare ==
  /\ pc = "drivers"
  /\ \E nb \in 0..MaxDrivers, zesnb \in 0..MaxDrivers,
        resOK \in BOOLEAN, zesOK \in BOOLEAN, mallocOK \in BOOLEAN, fillOK \in BOOLEAN :
       /\ driverq' = IF ~resOK THEN "failed"
                     ELSE IF nb = 0 THEN "none"
                     ELSE IF ~zesOK THEN "failed"
                     ELSE IF zesnb # nb THEN "mismatch"
                     ELSE IF ~mallocOK \/ ~fillOK THEN "failed" ELSE "ok"
       /\ IF ~resOK \/ nb = 0 \/ ~zesOK \/ ~mallocOK \/ ~fillOK
          THEN /\ pc' = "connect"
               /\ UNCHANGED <<nbdrivers, drv>>
          ELSE /\ nbdrivers' = nb
               /\ drv' = 0
               /\ pc' = "driver"
  /\ UNCHANGED <<prior, mem, twin, noDistances, nbdevices, dev, zeidx, added, devSeen, subSeen, subVars, topoVars,
                 portVars, connVars, backendInfo, discoverRet, faults, created, dropped>>

\* zeDriverGet / zesDriverGet and the two handle arrays
DriverGet ==
  /\ pc = "drivers"
  /\ \E nb \in 0..MaxDrivers, zesnb \in 0..MaxDrivers,
        resOK \in BOOLEAN, zesOK \in BOOLEAN, mallocOK \in BOOLEAN, fillOK \in BOOLEAN :
       /\ driverq' = IF ~resOK THEN "failed"
                     ELSE IF nb = 0 THEN "none"
                     ELSE IF ~zesOK THEN "failed"
                     ELSE IF zesnb # nb THEN "mismatch"
                     ELSE IF ~mallocOK \/ ~fillOK THEN "failed" ELSE "ok"
       /\ IF ~resOK \/ nb = 0 \/ ~zesOK \/ zesnb # nb \/ ~mallocOK \/ ~fillOK
          THEN /\ pc' = "connect"
               /\ UNCHANGED <<nbdrivers, drv>>
          ELSE /\ nbdrivers' = nb
               /\ drv' = 0
               /\ pc' = "driver"
  /\ UNCHANGED <<prior, mem, twin, noDistances, nbdevices, dev, zeidx, added, devSeen, subSeen, subVars, topoVars,
                 portVars, connVars, backendInfo, discoverRet, faults, created, dropped>>

\* head of the driver loop: zeDeviceGet for driver drv
DeviceGet ==
  /\ pc = "driver" /\ drv < nbdrivers
  /\ \E n \in 0..(MaxSize - Used), resOK \in BOOLEAN, mallocOK \in BOOLEAN, fillOK \in BOOLEAN :
       IF ~resOK \/ n = 0 \/ ~mallocOK \/ ~fillOK
       THEN /\ drv' = drv + 1
            /\ UNCHANGED <<nbdevices, dev, pc>>
       ELSE /\ nbdevices' = n
            /\ dev' = 0
            /\ pc' = "device"
            /\ UNCHANGED drv
  /\ UNCHANGED <<prior, mem, twin, noDistances, nbdrivers, zeidx, added, devSeen, subSeen, subVars, topoVars,
                 portVars, connVars, backendInfo, discoverRet, faults, histVars>>

\* end of the driver loop: return added; the locals of devices_get are gone
DevicesGetReturn ==
  /\ pc = "driver" /\ drv = nbdrivers
  /\ pc' = "connect"
  /\ nbdrivers' = 0 /\ drv' = 0 /\ nbdevices' = 0 /\ dev' = 0 /\ zeidx' = 0
  /\ heapOld' = <<>>
  /\ twin' = [twin EXCEPT !.heapOld = <<>>]
  /\ UNCHANGED <<prior, mem, noDistances, added, devSeen, subSeen, nr_subdevices, subosdevs, ksub, topoVars,
                 portVars, connVars, backendInfo, discoverRet, faults, histVars>>

\* end of the device loop of one driver
DriverDone ==
  /\ pc = "device" /\ dev = nbdevices
  /\ drv' = drv + 1
  /\ pc' = "driver"
  /\ UNCHANGED <<prior, mem, twin, noDistances, nbdrivers, nbdevices, dev, zeidx, added, devSeen, subSeen, subVars,
                 topoVars, portVars, connVars, backendInfo, discoverRet, faults, histVars>>

\* the object the device walked now would get
CurOsdev == Osdev(devSeen + 1)

\* head of the device loop: properties, correlation, object setup, subdevice count
DeviceProbe ==
  /\ pc = "device" /\ dev < nbdevices
  /\ \E propsOK \in BOOLEAN, corrOK \in BOOLEAN :
       IF ~propsOK \/ ~corrOK
       THEN /\ Used < MaxSize
            /\ faults' = faults + 1
            /\ dev' = dev + 1
            /\ devSeen' = devSeen + 1
            /\ UNCHANGED <<pc, nr_subdevices, subosdevs, ksub, info, subSeen, created, twin>>
       ELSE \E subOK \in BOOLEAN, allocOK \in BOOLEAN, n \in 0..Min(MaxSub, MaxSize - Used) :
              /\ Used + (IF allocOK THEN n ELSE 1) <= MaxSize
              /\ faults' = faults + Cost(subOK /\ n > 0 /\ ~allocOK)
              /\ UNCHANGED <<dev, devSeen>>
              /\ created' = created \cup {CurOsdev}
              /\ ksub' = 0
              /\ subSeen' = IF subOK /\ allocOK THEN subSeen + n ELSE subSeen
              /\ IF subOK /\ n > 0
                 THEN /\ info' = (CurOsdev :> FormatUnsigned(n)) @@ info
                      /\ IF allocOK
                         THEN /\ nr_subdevices' = n
                              /\ subosdevs' = [k \in 1..n |-> NULL]
                              /\ pc' = "sub"
                         ELSE /\ nr_subdevices' = 0
                              /\ subosdevs' = <<>>
                              /\ pc' = "harvest"
                 ELSE /\ nr_subdevices' = 0
                      /\ subosdevs' = <<>>
                      /\ pc' = "harvest"
                      /\ UNCHANGED info
              /\ twin' = [twin EXCEPT !.subosdevs = subosdevs']
  /\ UNCHANGED <<prior, mem, noDistances, nbdrivers, drv, nbdevices, zeidx, added, heapOld, tree,
                 oarray, portVars, connVars, backendInfo, discoverRet, dropped, driverq>>

\* what malloc left in slot k of subosdevs: NULL, a wild pointer, or the
\* pointer the previously freed block held there
Garbage(k) ==
  {NULL, Junk} \cup (IF k <= Len(heapOld) /\ IsObject(heapOld[k]) THEN {heapOld[k]} ELSE {})

\* the same for the block the second pass got from malloc
TwinGarbage(k) ==
  {NULL, Junk} \cup (IF k <= Len(twin.heapOld) /\ IsObject(twin.heapOld[k])
                     THEN {twin.heapOld[k]} ELSE {})

\* one iteration of the subdevice loop
SubProbe ==
  /\ pc = "sub" /\ ksub < nr_subdevices
  /\ \E propsOK \in BOOLEAN, corrOK \in BOOLEAN :
       IF propsOK /\ corrOK
       THEN /\ subosdevs' = [subosdevs EXCEPT ![ksub + 1] = SubOsdev(devSeen + 1, ksub)]
            /\ created' = created \cup {SubOsdev(devSeen + 1, ksub)}
            /\ twin' = [twin EXCEPT !.subosdevs[ksub + 1] = SubOsdev(devSeen + 1, ksub)]
            /\ UNCHANGED faults
       ELSE \E g \in Garbage(ksub + 1), g2 \in TwinGarbage(ksub + 1) :
              /\ Used < MaxSize
              /\ faults' = faults + 1
              /\ subosdevs' = [subosdevs EXCEPT ![ksub + 1] = g]
              /\ twin' = [twin EXCEPT !.subosdevs[ksub + 1] = g2]
              /\ UNCHANGED created
  /\ ksub' = ksub + 1
  /\ pc' = IF ksub + 1 = nr_subdevices THEN "harvest" ELSE "sub"
  /\ UNCHANGED <<prior, mem, noDistances, enumVars, nr_subdevices, heapOld, topoVars, portVars,
                 connVars, backendInfo, discoverRet, dropped, driverq>>

\* ------------------------------------------------ hwloc__levelzero_ports_get
\* zes_fabric_port_id_t of the n-th port the driver enumerates: <<fabricId, attachId, portNumber>>
PortIdOf(n) == <<n \div 2, 0, n % 2>>
\* the remote identities a port may report: the first or the second port the
\* driver enumerates in the pass
RemoteIds == {PortIdOf(1), PortIdOf(2)}
Statuses == {"HEALTHY", "DEGRADED", "FAILED"}
Models == {"XeLink", "Other"}
\* rxSpeed.bitRate is a 64-bit value, kept as hi * 2^MBShift + lo
NominalRate == [hi |-> 5, lo |-> 123]
BitRates == {NominalRate, [hi |-> LocalBandwidth + 1, lo |-> 0]}
\* bitRate >> 20, in MB/s
ToMB(bitRate) == bitRate.hi + ShiftRight(bitRate.lo, MBShift)

\* faulty variant of PortsEnum: the test for growth ignores the slots in use
PortsEnumFreeFromStart ==
  /\ pc = "harvest"
  /\ IF noDistances
     THEN /\ pc' = "attach"
          /\ UNCHANGED <<hports, nr_new, pidx, faults>>
     ELSE \E n \in 0..(MaxSize - Used), resOK \in BOOLEAN,
             reallocOK \in BOOLEAN, mallocOK \in BOOLEAN :
            /\ LET grow == hports.nr_allocated < n
                   cost == IF ~resOK THEN 1
                           ELSE IF n = 0 THEN 0
                           ELSE IF grow /\ ~reallocOK THEN 1
                           ELSE Cost(~mallocOK)
               IN Used + cost <= MaxSize /\ faults' = faults + cost
            /\ IF ~resOK \/ n = 0
               THEN /\ pc' = "attach"
                    /\ UNCHANGED <<hports, nr_new, pidx>>
               ELSE IF hports.nr_allocated < n /\ ~reallocOK
               THEN /\ pc' = "attach"
                    /\ UNCHANGED <<hports, nr_new, pidx>>
               ELSE /\ hports' =
                         IF hports.nr_allocated < n
                         THEN [hports EXCEPT
                                 !.nr_allocated = hports.nr_allocated + PortGrowthFactor * n,
                                 !.ports = hports.ports \o [x \in 1..(PortGrowthFactor * n) |-> UninitPort]]
                         ELSE hports
                    /\ IF mallocOK
                       THEN nr_new' = n /\ pidx' = 0 /\ pc' = "port"
                       ELSE pc' = "attach" /\ UNCHANGED <<nr_new, pidx>>
  /\ UNCHANGED <<prior, mem, twin, noDistances, enumVars, subVars, topoVars, portSeq, connVars,
                 backendInfo, discoverRet, histVars>>

\* zesDeviceEnumFabricPorts, growth of the shared array, the handle array
PortsEnum ==
  /\ pc = "harvest"
  /\ IF noDistances
     THEN /\ pc' = "attach"
          /\ UNCHANGED <<hports, nr_new, pidx, faults>>
     ELSE \E n \in 0..(MaxSize - Used), resOK \in BOOLEAN,
             reallocOK \in BOOLEAN, mallocOK \in BOOLEAN :
            /\ LET grow == hports.nr_allocated - hports.nr < n
                   cost == IF ~resOK THEN 1
                           ELSE IF n = 0 THEN 0
                           ELSE IF grow /\ ~reallocOK THEN 1
                           ELSE Cost(~mallocOK)
               IN Used + cost <= MaxSize /\ faults' = faults + cost
            /\ IF ~resOK \/ n = 0
               THEN /\ pc' = "attach"
                    /\ UNCHANGED <<hports, nr_new, pidx>>
               ELSE IF hports.nr_allocated - hports.nr < n /\ ~reallocOK
               THEN /\ pc' = "attach"
                    /\ UNCHANGED <<hports, nr_new, pidx>>
               ELSE /\ hports' =
                         IF hports.nr_allocated - hports.nr < n
                         THEN [hports EXCEPT
                                 !.nr_allocated = hports.nr_allocated + PortGrowthFactor * n,
                                 !.ports = hports.ports \o [x \in 1..(PortGrowthFactor * n) |-> UninitPort]]
                         ELSE hports
                    /\ IF mallocOK
                       THEN nr_new' = n /\ pidx' = 0 /\ pc' = "port"
                       ELSE pc' = "attach" /\ UNCHANGED <<nr_new, pidx>>
  /\ UNCHANGED <<prior, mem, twin, noDistances, enumVars, subVars, topoVars, portSeq, connVars,
                 backendInfo, discoverRet, histVars>>

\* faulty variant of CaptureSlot: the status test is missing
CaptureSlotAnyStatus(slot, ord, propsOK, sub, model, stateOK, status, remote, rate) ==
  IF ~propsOK THEN <<slot, FALSE>>
  ELSE
    LET s1 == [slot EXCEPT !.propsOf = ord, !.onSubdevice = (sub >= 0),
                           !.subdeviceId = IF sub >= 0 THEN sub ELSE 0,
                           !.portId = PortIdOf(ord), !.model = model]
    IN IF sub >= 0 /\ ~(sub < nr_subdevices) THEN <<s1, FALSE>>
       ELSE
         LET s2 == IF sub >= 0
                   THEN [s1 EXCEPT !.osdev = subosdevs[sub + 1], !.parent_osdev = CurOsdev]
                   ELSE [s1 EXCEPT !.osdev = CurOsdev, !.parent_osdev = NULL]
         IN IF ~stateOK THEN <<s2, FALSE>>
            ELSE <<[s2 EXCEPT !.stateOf = ord, !.status = status,
                              !.remotePortId = remote, !.bitRate = rate], TRUE>>

\* the slot hports->ports[id] after one iteration of the capture loop, and
\* whether nr is incremented: <<slot, kept>>
CaptureSlot(slot, ord, propsOK, sub, model, stateOK, status, remote, rate) ==
  IF ~propsOK THEN <<slot, FALSE>>
  ELSE
    LET s1 == [slot EXCEPT !.propsOf = ord, !.onSubdevice = (sub >= 0),
                           !.subdeviceId = IF sub >= 0 THEN sub ELSE 0,
                           !.portId = PortIdOf(ord), !.model = model]
    IN IF sub >= 0 /\ ~(sub < nr_subdevices) THEN <<s1, FALSE>>
       ELSE
         LET s2 == IF sub >= 0
                   THEN [s1 EXCEPT !.osdev = subosdevs[sub + 1], !.parent_osdev = CurOsdev]
                   ELSE [s1 EXCEPT !.osdev = CurOsdev, !.parent_osdev = NULL]
         IN IF ~stateOK THEN <<s2, FALSE>>
            ELSE
              LET s3 == [s2 EXCEPT !.stateOf = ord, !.status = status,
                                   !.remotePortId = remote, !.bitRate = rate]
              IN <<s3, status = "HEALTHY" \/ status = "DEGRADED">>

\* one iteration of the capture loop
PortCapture ==
  /\ pc = "port" /\ pidx < nr_new
  /\ \E propsOK \in BOOLEAN, sub \in (0 - 1)..nr_subdevices, model \in Models,
        stateOK \in BOOLEAN, status \in Statuses, remote \in RemoteIds, rate \in BitRates :
       LET cost == Cost(~propsOK) + Cost(sub = nr_subdevices) + Cost(model # "XeLink")
                   + Cost(~stateOK) + Cost(status # "HEALTHY") + Cost(rate # NominalRate)
           r == CaptureSlot(hports.ports[hports.nr + 1], portSeq + 1, propsOK, sub,
                            model, stateOK, status, remote, rate)
       IN /\ Used + cost <= MaxSize
          /\ faults' = faults + cost
          /\ hports' = [hports EXCEPT !.ports[hports.nr + 1] = r[1],
                                      !.nr = IF r[2] THEN hports.nr + 1 ELSE hports.nr]
  /\ portSeq' = portSeq + 1
  /\ pidx' = pidx + 1
  /\ pc' = IF pidx + 1 = nr_new THEN "attach" ELSE "port"
  /\ UNCHANGED <<prior, mem, twin, noDistances, enumVars, subVars, topoVars, nr_new, connVars,
                 backendInfo, discoverRet, histVars>>

\* -------------------------------- insertion and registration (devices_get)
\* osdev_array_add cannot report to its callers here (the result is ignored);
\* 1 when the realloc it made failed
ReallocFailed(arr, reallocOK) == Cost(arr.nr_allocated = arr.nr /\ ~reallocOK)

\* the objects whose append failed so far, with new when this one does
Dropping(drp, arr, new, reallocOK) ==
  IF ReallocFailed(arr, reallocOK) = 1 THEN drp \cup {new} ELSE drp

\* the loop over subosdevs[k]: <<tree, oarray, added, dropped>> after slots k..n
RECURSIVE AttachSubs(_, _, _, _, _, _)
AttachSubs(k, tr, arr, cnt, drp, reallocOK) ==
  IF k > nr_subdevices THEN <<tr, arr, cnt, drp>>
  ELSE IF subosdevs[k] = NULL THEN AttachSubs(k + 1, tr, arr, cnt, drp, reallocOK)
  ELSE AttachSubs(k + 1, Append(tr, <<subosdevs[k], CurOsdev>>),
                  osdev_array_add(arr, subosdevs[k], reallocOK[k + 1]), cnt + 1,
                  Dropping(drp, arr, subosdevs[k], reallocOK[k + 1]), reallocOK)

\* the registry after the appends of the non-NULL slots k.. of the given slots
RECURSIVE AttachRegistry(_, _, _, _)
AttachRegistry(k, slots, arr, reallocOK) ==
  IF k > Len(slots) THEN arr
  ELSE IF slots[k] = NULL THEN AttachRegistry(k + 1, slots, arr, reallocOK)
  ELSE AttachRegistry(k + 1, slots, osdev_array_add(arr, slots[k], reallocOK[k + 1]), reallocOK)

\* parent lookup, hwloc_insert_object_by_parent and osdev_array_add for the
\* device and its subdevices, end of the device loop body
Attach ==
  /\ pc = "attach"
  /\ \E reallocOK \in [1..(nr_subdevices + 1) -> BOOLEAN] :
       LET r == AttachSubs(1, Append(tree, <<CurOsdev, NULL>>),
                           osdev_array_add(oarray, CurOsdev, reallocOK[1]),
                           added + 1, Dropping({}, oarray, CurOsdev, reallocOK[1]), reallocOK)
       IN /\ \/ /\ tree' = r[1] /\ oarray' = r[2] /\ added' = r[3]
                /\ dropped' = dropped \cup r[4]
                /\ heap' = [heap EXCEPT !.objs = IF r[2].objsPtr = "valid" THEN "owned" ELSE @]
                /\ heapOld' = IF nr_subdevices > 0 THEN subosdevs ELSE heapOld
                /\ twin' = [subosdevs |-> <<>>,
                            heapOld |-> IF nr_subdevices > 0 THEN twin.subosdevs
                                        ELSE twin.heapOld,
                            oarray |-> AttachRegistry(1, twin.subosdevs,
                                         osdev_array_add(twin.oarray, CurOsdev, reallocOK[1]),
                                         reallocOK)]
                /\ zeidx' = zeidx + 1
                /\ dev' = dev + 1
                /\ devSeen' = devSeen + 1
                /\ nr_subdevices' = 0 /\ subosdevs' = <<>> /\ ksub' = 0
                /\ nr_new' = 0 /\ pidx' = 0
                /\ pc' = "device"
             \/ \* a wild pointer handed to hwloc_insert_object_by_parent
                /\ \E k \in 1..nr_subdevices : subosdevs[k] = Junk
                /\ pc' = "crashed"
                /\ UNCHANGED <<tree, oarray, added, heapOld, zeidx, dev, devSeen, heap,
                               nr_subdevices, subosdevs, ksub, nr_new, pidx, dropped, twin>>
  /\ UNCHANGED <<prior, mem, noDistances, nbdrivers, drv, nbdevices, subSeen, info, hports, portSeq,
                 bws, acc, step, gotbw, filled, connectRet, dataset, backendInfo,
                 discoverRet, faults, created, driverq>>

\* ------------------------------------------- hwloc__levelzero_ports_connect
\* free(ptr) on a buffer in the given state
Free(state, ptrIsNull) ==
  IF ptrIsNull THEN state
  ELSE CASE state = "owned" -> "freed"
         [] state = "attached" -> "freed_attached"
         [] state = "freed" -> "double_free"
         [] OTHER -> state

\* faulty variant of AddAt: = where the code has +=
AddAtOverwrite(m, f, v) == [m EXCEPT ![f + 1] = v]

\* m[f] += v on the flat matrix, f counted from 0
AddAt(m, f, v) == [m EXCEPT ![f + 1] = @ + v]

\* the remote identity of port a is the local identity of port b
SamePortId(a, b) ==
  /\ a.remotePortId[1] = b.portId[1]
  /\ a.remotePortId[2] = b.portId[2]
  /\ a.remotePortId[3] = b.portId[3]

\* faulty variant of Accumulate: nothing is accumulated in the parents' cell
RECURSIVE AccumulateOwnersOnly(_, _, _)
AccumulateOwnersOnly(p, m, g) ==
  IF p >= hports.nr * hports.nr THEN <<m, g>>
  ELSE
    LET i == p \div hports.nr
        j == p % hports.nr
        pi == hports.ports[i + 1]
        pj == hports.ports[j + 1]
        N == oarray.nr
    IN IF pi.status # "HEALTHY" \/ i = j \/ ~SamePortId(pi, pj) \/ pj.model # "XeLink"
       THEN AccumulateOwnersOnly(p + 1, m, g)
       ELSE
         LET iindex == osdev_array_find(oarray, pi.osdev)
             jindex == osdev_array_find(oarray, pj.osdev)
         IN IF iindex < 0 \/ jindex < 0 THEN AccumulateOwnersOnly(p + 1, m, g)
            ELSE AccumulateOwnersOnly(p + 1, AddAt(m, iindex * N + jindex, ToMB(pi.bitRate)),
                                      g + 1)

\* the two nested loops over ports, pair p = i * nr + j onward: <<bws, gotbw>>
RECURSIVE Accumulate(_, _, _)
Accumulate(p, m, g) ==
  IF p >= hports.nr * hports.nr THEN <<m, g>>
  ELSE
    LET i == p \div hports.nr
        j == p % hports.nr
        pi == hports.ports[i + 1]
        pj == hports.ports[j + 1]
        N == oarray.nr
    IN IF pi.status # "HEALTHY" \/ i = j \/ ~SamePortId(pi, pj) \/ pj.model # "XeLink"
       THEN Accumulate(p + 1, m, g)
       ELSE
         LET iindex == osdev_array_find(oarray, pi.osdev)
             jindex == osdev_array_find(oarray, pj.osdev)
         IN IF iindex < 0 \/ jindex < 0 THEN Accumulate(p + 1, m, g)
            ELSE
              LET m1 == AddAt(m, iindex * N + jindex, ToMB(pi.bitRate))
              IN IF pi.parent_osdev # NULL /\ pj.parent_osdev # NULL
                 THEN
                   LET ip == osdev_array_find(oarray, pi.parent_osdev)
                       jp == osdev_array_find(oarray, pj.parent_osdev)
                   IN IF ip < 0 \/ jp < 0 THEN Accumulate(p + 1, m1, g)
                      ELSE Accumulate(p + 1, AddAt(m1, ip * N + jp, ToMB(pi.bitRate)), g + 1)
                 ELSE Accumulate(p + 1, m1, g + 1)

\* faulty variant of FillBlock: the diagonal only
FillBlockDiagonal(i, nrsd) == {<<i + j, i + j>> : j \in 0..nrsd}

\* the cells bws[(i+j)*nr+(i+k)] written for the entry at index i: <<row, col>>
FillBlock(i, nrsd) == {<<i + j, i + k>> : j \in 0..nrsd, k \in 0..nrsd}

\* the loop over oarray of the synthetic fill, from index i: the set of <<row, col>> written
RECURSIVE FillCells(_)
FillCells(i) ==
  IF i >= oarray.nr THEN {}
  ELSE LET nrsd == SubdevicesOf(oarray.objs[i + 1])
       IN FillBlock(i, nrsd) \cup FillCells(i + nrsd + 1)

\* the indices at which the fill reads the LevelZeroSubdevices attribute
RECURSIVE FillVisited(_)
FillVisited(i) ==
  IF i >= oarray.nr THEN {}
  ELSE {i} \cup FillVisited(i + SubdevicesOf(oarray.objs[i + 1]) + 1)

\* offset of a written cell in the matrix buffer
Flat(c) == c[1] * oarray.nr + c[2]

\* the matrix after the writes that land inside its buffer
FillMatrix(m, cells) ==
  [f \in 1..Len(m) |-> IF \E c \in cells : Flat(c) = f - 1 THEN LocalBandwidth ELSE m[f]]


\* ------------------------------ hwloc__levelzero_ports_add_xelink_bandwidth
\* hwloc_backend_distances_add_values taking the object list and the values:
\* on success both arrays belong to the distances interface
distances_add_values(h, ok) ==
  IF ok THEN [h EXCEPT !.bws = "attached", !.objs = "attached"] ELSE h

\* faulty variant of add_xelink_bandwidth: bws is not set to NULL after the
\* arrays were attached
add_xelink_bandwidth_stale(h, objsPtr, createOK, valuesOK, commitOK) ==
  IF ~createOK
  THEN <<[h EXCEPT !.bws = Free(@, FALSE)], objsPtr, "none", 0 - 1>>
  ELSE
    LET h1 == distances_add_values(h, valuesOK)
    IN IF ~valuesOK
       THEN <<[h1 EXCEPT !.bws = Free(@, FALSE)], objsPtr, "cancelled", 0 - 1>>
       ELSE IF ~commitOK
       THEN <<[h1 EXCEPT !.bws = Free(@, FALSE)], "null", "cancelled", 0 - 1>>
       ELSE <<[h1 EXCEPT !.bws = Free(@, TRUE)], "null", "committed", 0>>

\* create, add_values, commit and the out: label, on the heap h:
\* <<heap, objsPtr of oarray, dataset, return value>>
add_xelink_bandwidth(h, objsPtr, createOK, valuesOK, commitOK) ==
  IF ~createOK
  THEN <<[h EXCEPT !.bws = Free(@, FALSE)], objsPtr, "none", 0 - 1>>
  ELSE
    LET h1 == distances_add_values(h, valuesOK)
    IN IF ~valuesOK
       THEN <<[h1 EXCEPT !.bws = Free(@, FALSE)], objsPtr, "cancelled", 0 - 1>>
       ELSE IF ~commitOK
       THEN <<[h1 EXCEPT !.bws = Free(@, TRUE)], "null", "cancelled", 0 - 1>>
       ELSE <<[h1 EXCEPT !.bws = Free(@, TRUE)], "null", "committed", 0>>

\* hwloc__levelzero_ports_connect: entry, calloc, accumulation, the gotbw
\* test, the synthetic locality fill and the hand-over to the distances
\* interface.  acc keeps the matrix as it was before the fill.
PortsConnect ==
  /\ pc = "connect"
  /\ IF hports.nr = 0
     THEN /\ connectRet' = 0
          /\ pc' = "finish"
          /\ UNCHANGED <<bws, acc, gotbw, filled, heap, dataset, oarray, step>>
     ELSE \E callocOK \in BOOLEAN :
            IF ~callocOK
            THEN /\ connectRet' = 0 - 1
                 /\ pc' = "finish"
                 /\ step' = "calloc"
                 /\ UNCHANGED <<bws, acc, gotbw, filled, heap, dataset, oarray>>
            ELSE LET r == Accumulate(0, [f \in 1..(oarray.nr * oarray.nr) |-> 0], 0)
                     cells == FillCells(0)
                     over == \E c \in cells : Flat(c) >= oarray.nr * oarray.nr
                     wild == \E i \in FillVisited(0) : oarray.objs[i + 1] = Junk
                 IN /\ acc' = r[1]
                    /\ gotbw' = r[2]
                    /\ IF r[2] = 0
                       THEN /\ heap' = [heap EXCEPT !.bws = Free("owned", FALSE)]
                            /\ connectRet' = 0
                            /\ pc' = "finish"
                            /\ step' = "nobw"
                            /\ UNCHANGED <<bws, filled, dataset, oarray>>
                       ELSE \/ \E createOK \in BOOLEAN, valuesOK \in BOOLEAN, commitOK \in BOOLEAN :
                                 LET x == add_xelink_bandwidth(
                                            [heap EXCEPT !.bws = "owned", !.overrun = over],
                                            oarray.objsPtr, createOK, valuesOK, commitOK)
                                 IN /\ filled' = cells
                                    /\ bws' = FillMatrix(r[1], cells)
                                    /\ heap' = x[1]
                                    /\ oarray' = [oarray EXCEPT !.objsPtr = x[2]]
                                    /\ dataset' = x[3]
                                    /\ connectRet' = x[4]
                                    /\ step' = IF ~createOK THEN "create"
                                               ELSE IF ~valuesOK THEN "values"
                                               ELSE IF ~commitOK THEN "commit" ELSE "committed"
                                    /\ pc' = "finish"
                            \/ \* a write past the buffer or a read through a wild pointer
                               /\ over \/ wild
                               /\ pc' = "crashed"
                               /\ step' = "fill"
                               /\ UNCHANGED <<bws, filled, heap, dataset, oarray, connectRet>>
  /\ UNCHANGED <<prior, mem, twin, noDistances, enumVars, subVars, tree, info, portVars, backendInfo,
                 discoverRet, faults, histVars>>

\* ports_destroy, osdev_array_free, the Backend info and the return of discover
DiscoverEnd ==
  /\ pc = "finish"
  /\ heap' = [heap EXCEPT !.objs = Free(@, oarray.objsPtr = "null")]
  /\ backendInfo' = (added > 0)
  /\ discoverRet' = 0
  /\ pc' = "done"
  /\ UNCHANGED <<prior, mem, twin, noDistances, enumVars, subVars, topoVars, portVars, bws, acc, step,
                 gotbw, filled, connectRet, dataset, faults, histVars>>

Next ==
  \/ DiscoverBegin
  \/ DriverGet
  \/ DeviceGet
  \/ DevicesGetReturn
  \/ DriverDone
  \/ DeviceProbe
  \/ SubProbe
  \/ PortsEnum
  \/ PortCapture
  \/ Attach
  \/ PortsConnect
  \/ DiscoverEnd

Spec == Init /\ [][Next]_vars

\* ------------------------------------------- the Fabric Port Registry, later
\* the slot of the ord-th port of the pass, on device d, captured with the
\* nominal answers
NominalPort(d, ord) ==
  [osdev |-> Osdev(d), parent_osdev |-> NULL, propsOf |-> ord, stateOf |-> ord,
   onSubdevice |-> FALSE, subdeviceId |-> 0, portId |-> PortIdOf(ord),
   model |-> "XeLink", status |-> "HEALTHY",
   remotePortId |-> PortIdOf(IF ord = 1 THEN 2 ELSE 1), bitRate |-> NominalRate]

\* the pass at the call of ports_get for the third device of a driver with
\* nb devices, after a first device with 1 port (the buffer grew to
\* PortGrowthFactor slots) and a second one with k - 1 ports, every answer
\* so far nominal
MidPass(nb, k) ==
  /\ pc = "harvest"
  /\ noDistances = FALSE
  /\ nbdrivers = 1 /\ drv = 0 /\ nbdevices = nb /\ dev = 2 /\ zeidx = 2 /\ added = 2
  /\ devSeen = 2 /\ subSeen = 0
  /\ nr_subdevices = 0 /\ subosdevs = <<>> /\ ksub = 0 /\ heapOld = <<>>
  /\ tree = <<<<Osdev(1), NULL>>, <<Osdev(2), NULL>>>>
  /\ info = <<>>
  /\ oarray = [nr |-> 2, nr_allocated |-> ArrayGrowth, objs |-> <<Osdev(1), Osdev(2)>>,
               objsPtr |-> "valid"]
  /\ hports = [nr_allocated |-> PortGrowthFactor, nr |-> k,
               ports |-> [x \in 1..PortGrowthFactor |->
                            IF x <= k THEN NominalPort(IF x = 1 THEN 1 ELSE 2, x)
                            ELSE UninitPort]]
  /\ portSeq = k /\ nr_new = 0 /\ pidx = 0
  /\ bws = <<>> /\ acc = <<>> /\ step = "" /\ gotbw = 0 /\ filled = {}
  /\ heap = [bws |-> "none", objs |-> "owned", overrun |-> FALSE]
  /\ connectRet = 0 /\ dataset = "none"
  /\ backendInfo = FALSE /\ discoverRet = 1
  /\ faults = 0
  /\ created = {Osdev(1), Osdev(2), Osdev(3)} /\ dropped = {} /\ driverq = "ok"
  /\ twin = [subosdevs |-> <<>>, heapOld |-> <<>>,
             oarray |-> [nr |-> 2, nr_allocated |-> ArrayGrowth,
                         objs |-> <<Osdev(1), Osdev(2)>>, objsPtr |-> "valid"]]
  /\ prior = 2 + k
  /\ mem = MemIdle

InitPorts ==
  \E nb \in 3..4, k \in (PortGrowthFactor - 2)..PortGrowthFactor : MidPass(nb, k)

\* the device loop from there on
NextPorts ==
  \/ DeviceProbe
  \/ SubProbe
  \/ PortsEnum
  \/ PortCapture
  \/ Attach

SpecPorts == InitPorts /\ [][NextPorts]_vars

\* ----------------------------------------------- hwloc__levelzero_memory_get
\* The Memory Harvester writes only LevelZero*Size attributes, which nothing
\* else in the pass reads: one call of it, for the first device, is a
\* specification of its own.
RootOsdev == Osdev(1)

\* zes_mem_type_t values the driver may report for a module
DDRTypes == {"DDR", "DDR3", "DDR4", "DDR5", "LPDDR", "LPDDR3", "LPDDR4", "LPDDR5"}
MemTypes == {"HBM", "DDR4", "LPDDR5", "SRAM"}
\* physicalSize and live-state size in bytes
PhysSizes == {0, 1536}
StateSizes == {2560}

\* the type string chosen by the switch on mprop.type
MemKind(type) ==
  IF type = "HBM" THEN "HBM" ELSE IF type \in DDRTypes THEN "DDR" ELSE "Memory"

\* snprintf(name, sizeof(name), "LevelZero%sSize", type)
InfoName(kind) ==
  CASE kind = "HBM" -> "LevelZeroHBMSize"
    [] kind = "DDR" -> "LevelZeroDDRSize"
    [] OTHER -> "LevelZeroMemorySize"

\* faulty variant of ModuleSize: the live state is never consulted
ModuleSizeNoFallback(physicalSize, stateOK, stateSize) == physicalSize

\* mprop.physicalSize after the fallback to the live state
ModuleSize(physicalSize, stateOK, stateSize) ==
  IF physicalSize = 0 /\ stateOK THEN stateSize ELSE physicalSize

\* the arguments memory_get is called with: the subdevice objects of the
\* device, a slot of a skipped subdevice holding whatever malloc left there
MemEntry ==
  UNION {{[MemIdle EXCEPT !.pc = "enum", !.nr_osdevs = n, !.sub_osdevs = so] :
            so \in {f \in [1..n -> {NULL, Junk} \cup {SubOsdev(1, j) : j \in 0..(n - 1)}] :
                      \A k \in 1..n : f[k] \in {NULL, Junk, SubOsdev(1, k - 1)}}} :
         n \in 0..MaxMemSub}

InitMem == pc = "memory" /\ Fresh /\ mem \in MemEntry

passVars == <<pc, noDistances, enumVars, subVars, topoVars, portVars, connVars,
              backendInfo, discoverRet, faults, histVars, twin, prior>>

\* zesDeviceEnumMemoryModules twice and the handle array
MemEnum ==
  /\ mem.pc = "enum"
  /\ \E resOK \in BOOLEAN, n \in 0..MaxMems, mallocOK \in BOOLEAN, fillOK \in BOOLEAN :
       mem' = IF ~resOK THEN [mem EXCEPT !.pc = "done", !.ret = 0 - 1]
              ELSE IF n = 0 THEN [mem EXCEPT !.pc = "done", !.ret = 0]
              ELSE IF ~mallocOK \/ ~fillOK THEN [mem EXCEPT !.pc = "totals", !.nr_mems = n]
              ELSE [mem EXCEPT !.pc = "module", !.nr_mems = n, !.m = 0]
  /\ UNCHANGED passVars

\* the object a module is attributed to
MemOsdev(onSubdevice, subdeviceId) ==
  IF onSubdevice
  THEN IF subdeviceId >= mem.nr_osdevs \/ mem.nr_osdevs = 0 THEN NULL
       ELSE mem.sub_osdevs[subdeviceId + 1]
  ELSE RootOsdev

\* one iteration of the loop over the memory modules
MemModule ==
  /\ mem.pc = "module" /\ mem.m < mem.nr_mems
  /\ \E propsOK \in BOOLEAN, type \in MemTypes, physicalSize \in PhysSizes,
        onSubdevice \in BOOLEAN, subdeviceId \in 0..mem.nr_osdevs,
        stateOK \in BOOLEAN, stateSize \in StateSizes :
       \* answers the code does not look at are recorded at one fixed value
       /\ ~propsOK => type = "HBM" /\ physicalSize = 0 /\ ~onSubdevice
       /\ ~onSubdevice => subdeviceId = 0
       /\ (~propsOK \/ physicalSize # 0) => stateOK
       /\ LET answer == [propsOK |-> propsOK, type |-> type, physicalSize |-> physicalSize,
                         onSubdevice |-> onSubdevice, subdeviceId |-> subdeviceId,
                         stateOK |-> stateOK, stateSize |-> stateSize]
              size == ModuleSize(physicalSize, stateOK, stateSize)
              osdev == MemOsdev(onSubdevice, subdeviceId)
              kind == MemKind(type)
              next == [mem EXCEPT
                         !.modules = Append(@, answer),
                         !.m = @ + 1,
                         !.pc = IF mem.m + 1 = mem.nr_mems THEN "totals" ELSE "module"]
              summed == [next EXCEPT
                           !.totalHBMkB = IF kind = "HBM" THEN @ + ShiftRight(size, KBShift) ELSE @,
                           !.totalDDRkB = IF kind = "DDR" THEN @ + ShiftRight(size, KBShift) ELSE @]
          IN IF ~propsOK THEN mem' = next
             ELSE IF osdev = NULL \/ size = 0 \/ osdev = RootOsdev THEN mem' = summed
             ELSE IF osdev = Junk
             THEN \* hwloc_obj_add_info through a wild pointer
                  \/ mem' = summed
                  \/ mem' = [summed EXCEPT !.pc = "crashed"]
             ELSE mem' = [summed EXCEPT
                            !.attrs = Append(@, [obj |-> osdev, name |-> InfoName(kind),
                                                 value |-> FormatUnsigned(ShiftRight(size, KBShift))])]
  /\ UNCHANGED passVars

\* the attributes of the root device, set after the loop
MemTotals ==
  /\ mem.pc = "totals"
  /\ LET hbm == IF mem.totalHBMkB # 0
                THEN <<[obj |-> RootOsdev, name |-> "LevelZeroHBMSize",
                        value |-> FormatUnsigned(mem.totalHBMkB)]>>
                ELSE <<>>
         ddr == IF mem.totalDDRkB # 0
                THEN <<[obj |-> RootOsdev, name |-> "LevelZeroDDRSize",
                        value |-> FormatUnsigned(mem.totalDDRkB)]>>
                ELSE <<>>
     IN mem' = [mem EXCEPT !.attrs = @ \o hbm \o ddr, !.ret = 0, !.pc = "done"]
  /\ UNCHANGED passVars

NextMem ==
  \/ MemEnum
  \/ MemModule
  \/ MemTotals

SpecMem == InitMem /\ [][NextMem]_vars

\* ============================================================== properties
\* the objects of the nodes inserted into the topology
TreeObjs == {tree[n][1] : n \in 1..Len(tree)}
\* the objects inserted, in insertion order
RECURSIVE TreeSeq(_)
TreeSeq(n) == IF n = 0 THEN <<>> ELSE Append(TreeSeq(n - 1), tree[n][1])
\* s can be obtained from t by deleting elements
RECURSIVE IsSubseq(_, _)
IsSubseq(s, t) ==
  IF s = <<>> THEN TRUE
  ELSE IF t = <<>> THEN FALSE
  ELSE IF Head(s) = Head(t) THEN IsSubseq(Tail(s), Tail(t))
  ELSE IsSubseq(s, Tail(t))
\* the registry positions (from 1) holding a subdevice of device object d
SubPositions(d) ==
  {q \in 1..oarray.nr : IsSubObj(oarray.objs[q]) /\ OwnerOf(oarray.objs[q]) = d}
\* the pass is past devices_get
Enumerated == pc \in {"connect", "finish", "done"}

\* the retained ports and the pairs the Builder looks at
Port(i) == hports.ports[i]
Index(o) == osdev_array_find(oarray, o)
Qualifying(i, j) ==
  /\ i # j
  /\ Port(i).status = "HEALTHY"
  /\ SamePortId(Port(i), Port(j))
  /\ Port(j).model = "XeLink"
PortPairs == {pr \in (1..hports.nr) \X (1..hports.nr) : Qualifying(pr[1], pr[2])}
\* qualifying pairs whose two owners are registered, and their cell
OwnerPairs ==
  {pr \in PortPairs : Index(Port(pr[1]).osdev) >= 0 /\ Index(Port(pr[2]).osdev) >= 0}
OwnerCell(pr) == <<Index(Port(pr[1]).osdev), Index(Port(pr[2]).osdev)>>
\* those of them whose two ports sit on subdevices with registered parents
ParentPairs ==
  {pr \in OwnerPairs : /\ Port(pr[1]).parent_osdev # NULL
                       /\ Port(pr[2]).parent_osdev # NULL
                       /\ Index(Port(pr[1]).parent_osdev) >= 0
                       /\ Index(Port(pr[2]).parent_osdev) >= 0}
ParentCell(pr) == <<Index(Port(pr[1]).parent_osdev), Index(Port(pr[2]).parent_osdev)>>
RateMB(pr) == ToMB(Port(pr[1]).bitRate)
RECURSIVE SumRates(_)
SumRates(S) ==
  IF S = {} THEN 0
  ELSE LET pr == CHOOSE x \in S : TRUE IN RateMB(pr) + SumRates(S \ {pr})
\* the value of cell c = <<row, col>> of matrix m
Value(m, c) == m[c[1] * oarray.nr + c[2] + 1]
\* the fill wrote the location of cell c
WrittenByFill(c) == \E f \in filled : Flat(f) = Flat(c)
Cells == (0..(oarray.nr - 1)) \X (0..(oarray.nr - 1))

\* C1: after the enumeration, whatever queries, subdevice-array allocations
\* and registry growths failed, the registry lists units in the order of
\* their insertion in the tree, and the subdevices of every registered
\* device sit at the indices right after the device's, nothing in between
C1_Contiguous ==
  Enumerated =>
    /\ IsSubseq(oarray.objs, TreeSeq(Len(tree)))
    /\ \A p \in 1..oarray.nr :
         IsDeviceObj(oarray.objs[p]) =>
           \E m \in 0..oarray.nr : SubPositions(oarray.objs[p]) = (p + 1)..(p + m)

\* the Builder handed a matrix to the distances interface
ReachedCommit == step \in {"create", "values", "commit", "committed"}

\* C2: when the Builder reaches the commit step, every registered device at
\* index d with recorded subdevice count c has all cells (a, b), a and b in
\* d..d+c, equal to 1000000
C2_DeviceBlocks ==
  ReachedCommit =>
    \A p \in 1..oarray.nr :
      IsDeviceObj(oarray.objs[p]) =>
        \A a, b \in (p - 1)..(p - 1 + SubdevicesOf(oarray.objs[p])) :
          /\ a < oarray.nr /\ b < oarray.nr
          /\ Value(bws, <<a, b>>) = LocalBandwidth

\* C3 as stated: in the committed matrix the owners' cell of every
\* qualifying pair is at least the pair's rate in MB/s, and at least the sum
\* of the rates of two pairs that connect the same owners
C3_AtLeastRate ==
  step = "committed" =>
    \A pr \in OwnerPairs :
      /\ Value(bws, OwnerCell(pr)) >= RateMB(pr)
      /\ \A qr \in OwnerPairs \ {pr} :
           OwnerCell(qr) = OwnerCell(pr) =>
             Value(bws, OwnerCell(pr)) >= RateMB(pr) + RateMB(qr)

\* C3 amended: the same, except for the cells the locality fill wrote, which
\* hold 1000000 whatever was accumulated
C3_AtLeastRateUnlessFilled ==
  step = "committed" =>
    \A pr \in OwnerPairs :
      IF WrittenByFill(OwnerCell(pr))
      THEN Value(bws, OwnerCell(pr)) = LocalBandwidth
      ELSE /\ Value(bws, OwnerCell(pr)) >= RateMB(pr)
           /\ \A qr \in OwnerPairs \ {pr} :
                OwnerCell(qr) = OwnerCell(pr) =>
                  Value(bws, OwnerCell(pr)) >= RateMB(pr) + RateMB(qr)

\* two qualifying pairs were accumulated into one cell the fill left alone,
\* and the matrix was committed
C3_Witness ==
  /\ step = "committed"
  /\ \E pr, qr \in OwnerPairs :
       pr # qr /\ OwnerCell(pr) = OwnerCell(qr) /\ ~WrittenByFill(OwnerCell(pr))

\* one device with two subdevices, all probed and registered, each
\* subdevice owning one healthy XeLink port wired to the other's
C4_Scenario ==
  /\ step = "committed"
  /\ devSeen = 1 /\ subSeen = 2
  /\ created = {Osdev(1), SubOsdev(1, 0), SubOsdev(1, 1)}
  /\ dropped = {}
  /\ portSeq = 2 /\ hports.nr = 2
  /\ Port(1).osdev = SubOsdev(1, 0) /\ Port(2).osdev = SubOsdev(1, 1)
  /\ Qualifying(1, 2) /\ Qualifying(2, 1)

\* C4 as stated: in that scenario the registry is device, subdevice 0,
\* subdevice 1, the matrix is 3 x 3, the two subdevice cells hold the ports'
\* rates and are not zero, the device's own cell is not zero, and the
\* diagonal holds 1000000
C4_Rates ==
  C4_Scenario =>
    /\ oarray.objs = <<Osdev(1), SubOsdev(1, 0), SubOsdev(1, 1)>>
    /\ Len(bws) = 9
    /\ Value(bws, <<1, 2>>) = RateMB(<<1, 2>>) /\ Value(bws, <<1, 2>>) # 0
    /\ Value(bws, <<2, 1>>) = RateMB(<<2, 1>>) /\ Value(bws, <<2, 1>>) # 0
    /\ Value(bws, <<0, 0>>) # 0
    /\ \A d \in 0..2 : Value(bws, <<d, d>>) = LocalBandwidth

\* C4 amended: in that scenario the registry is device, subdevice 0,
\* subdevice 1 and the matrix is 3 x 3; before the fill the two subdevice
\* cells hold the ports' rates and the device's diagonal cell their sum; the
\* committed matrix holds 1000000 in all nine cells, the two subdevice cells
\* included
C4_AllLocal ==
  C4_Scenario =>
    /\ oarray.objs = <<Osdev(1), SubOsdev(1, 0), SubOsdev(1, 1)>>
    /\ Len(bws) = 9
    /\ Value(acc, <<1, 2>>) = RateMB(<<1, 2>>)
    /\ Value(acc, <<2, 1>>) = RateMB(<<2, 1>>)
    /\ Value(acc, <<0, 0>>) = RateMB(<<1, 2>>) + RateMB(<<2, 1>>)
    /\ \A c \in Cells \ {<<1, 2>>, <<2, 1>>, <<0, 0>>} : Value(acc, c) = 0
    /\ \A c \in Cells : Value(bws, c) = LocalBandwidth

\* the scenario of C4 was played to the commit
C4_Witness == C4_Scenario /\ dataset = "committed"

\* C5: a unit whose property query or correlation failed is never inserted
\* in the tree and never appended to the registry (every node and every
\* entry is an object that was set up, inserted once, under its own
\* parent), and every unit that was probed is inserted, and registered
\* unless its append was dropped
C5_SkipPolicy ==
  /\ \A n \in 1..Len(tree) :
       /\ tree[n][1] \in created
       /\ tree[n][2] = (IF IsSubObj(tree[n][1]) THEN OwnerOf(tree[n][1]) ELSE NULL)
       /\ \A k \in 1..Len(tree) : tree[k][1] = tree[n][1] => k = n
  /\ \A p \in 1..oarray.nr : oarray.objs[p] \in created
  /\ Enumerated =>
       \A u \in created : u \in TreeObjs /\ (u \notin dropped => Index(u) >= 0)

\* C6: a unit whose append to the registry failed is in the topology and
\* counted as added, is not in the registry, and the Builder skips every
\* pair with a port it owns: the matrix before the fill is the sum of the
\* pairs whose owners were not dropped
C6_Dropped ==
  /\ Len(tree) = added
  /\ \A u \in dropped \cap created :
       /\ u \in TreeObjs
       /\ Index(u) < 0
  /\ step \notin {"", "calloc"} =>
       \A c \in Cells :
         Value(acc, c) =
           SumRates({pr \in OwnerPairs :
                       /\ OwnerCell(pr) = c
                       /\ Port(pr[1]).osdev \notin dropped \cap created
                       /\ Port(pr[2]).osdev \notin dropped \cap created})
           + SumRates({pr \in ParentPairs :
                         /\ ParentCell(pr) = c
                         /\ Port(pr[1]).osdev \notin dropped \cap created
                         /\ Port(pr[2]).osdev \notin dropped \cap created})

\* C7: every port the Port Registry retains had its properties and its
\* state read, both for that very port, is healthy or degraded, and, when on
\* a subdevice, names a subdevice index in range; ports are retained in
\* enumeration order
C7_Retained ==
  /\ hports.nr <= portSeq
  /\ \A n \in 1..hports.nr :
       /\ Port(n).status \in {"HEALTHY", "DEGRADED"}
       /\ Port(n).propsOf >= 1
       /\ Port(n).stateOf = Port(n).propsOf
       /\ Port(n).portId = PortIdOf(Port(n).propsOf)
       /\ Port(n).onSubdevice =>
            /\ Port(n).parent_osdev # NULL
            /\ Port(n).subdeviceId < SubdevicesOf(Port(n).parent_osdev)
       /\ \A k \in 1..(n - 1) : Port(k).propsOf < Port(n).propsOf

\* a degraded port is retained after another port was rejected
C7_Witness ==
  /\ Enumerated
  /\ hports.nr < portSeq
  /\ \E n \in 1..hports.nr : Port(n).status = "DEGRADED" /\ Port(n).propsOf > 1

C9_BuilderFailure ==
  step \in {"calloc", "create", "values", "commit"} =>
    /\ connectRet < 0
    /\ dataset # "committed"
    /\ Len(tree) = added
    /\ heap.bws = (CASE step = "calloc" -> "none"
                     [] step = "commit" -> "attached"
                     [] OTHER -> "freed")
    /\ heap.objs \in (IF step = "commit" THEN {"attached"}
                      ELSE IF pc = "done" THEN {"none", "freed"} ELSE {"none", "owned"})
    /\ pc = "done" => discoverRet = 0

\* the commit failed after the arrays were handed over, and the pass ended
C9_Witness == pc = "done" /\ step = "commit"

\* the size in KiB a recorded module answer amounts to
AnswerKiB(a) ==
  IF a.physicalSize # 0 THEN a.physicalSize \div 1024
  ELSE IF a.stateOK THEN a.stateSize \div 1024 ELSE 0
\* the technologies a bucket covers
InBucket(type, bucket) ==
  IF bucket = "HBM" THEN type = "HBM"
  ELSE type \in {"DDR", "DDR3", "DDR4", "DDR5", "LPDDR", "LPDDR3", "LPDDR4", "LPDDR5"}
\* the sum over the first n recorded modules of the given bucket
RECURSIVE BucketKiB(_, _)
BucketKiB(n, bucket) ==
  IF n = 0 THEN 0
  ELSE BucketKiB(n - 1, bucket)
       + (IF mem.modules[n].propsOK /\ InBucket(mem.modules[n].type, bucket)
          THEN AnswerKiB(mem.modules[n]) ELSE 0)
\* the values of the attributes of that name on the root device
RootValues(name) ==
  {mem.attrs[k].value : k \in {j \in 1..Len(mem.attrs) :
                                 mem.attrs[j].obj = RootOsdev /\ mem.attrs[j].name = name}}
\* the root device carries the attribute exactly when the sum is not zero,
\* and then its value is the sum
AggregateIs(name, sum) ==
  /\ Cardinality({j \in 1..Len(mem.attrs) :
                    mem.attrs[j].obj = RootOsdev /\ mem.attrs[j].name = name})
       = (IF sum = 0 THEN 0 ELSE 1)
  /\ \A v \in RootValues(name) : Atoi(v) = sum

\* C10: once the harvester has returned, the HBM and the DDR aggregate of the
\* device are each the sum of size >> 10 over the modules of that bucket
\* that were read (on the root, on a subdevice in range or out of range),
\* the size being the physical size or, when that is zero and the state
\* query succeeds, the live-state size; other technologies add to neither
C10_Aggregates ==
  mem.pc = "done" =>
    /\ AggregateIs("LevelZeroHBMSize", BucketKiB(Len(mem.modules), "HBM"))
    /\ AggregateIs("LevelZeroDDRSize", BucketKiB(Len(mem.modules), "DDR"))
    /\ RootValues("LevelZeroMemorySize") = {}

\* the harvester returned after reading an HBM module on an out-of-range
\* subdevice and a module whose size came from the live state, two modules
\* adding up in one bucket
C10_Witness ==
  /\ mem.pc = "done"
  /\ \E a, b \in 1..Len(mem.modules) :
       /\ a # b
       /\ mem.modules[a].propsOK /\ mem.modules[b].propsOK
       /\ mem.modules[a].type = "HBM" /\ mem.modules[b].type = "HBM"
       /\ mem.modules[a].onSubdevice /\ mem.modules[a].subdeviceId >= mem.nr_osdevs
       /\ mem.modules[b].physicalSize = 0 /\ mem.modules[b].stateOK
  /\ RootValues("LevelZeroHBMSize") # {}

\* the matrix before the fill as a sum over the set of qualifying pairs, in
\* which no order of accumulation appears
PairSum(c) ==
  SumRates({pr \in OwnerPairs : OwnerCell(pr) = c})
  + SumRates({pr \in ParentPairs : ParentCell(pr) = c})

\* C11: two passes given the same driver answers and allocation outcomes end
\* with the same registry order, and the accumulated matrix does not depend
\* on the order in which the qualifying pairs were visited (twin is the
\* second pass: same answers, its own malloc'ed blocks)
C11_SameRegistry ==
  Enumerated =>
    /\ twin.oarray.objs = oarray.objs
    /\ step \notin {"", "calloc"} => \A c \in Cells : Value(acc, c) = PairSum(c)

\* C12: what the accumulation puts in a cell beyond the owner-level rates of
\* the pairs is, for each qualifying pair with registered owners whose two
\* ports have a recorded and registered parent, the rate of the pair
\* (bitRate >> 20 of i) in the parents' cell, and nothing for a pair with a
\* port owned directly by a device
C12_ParentLevel ==
  step \notin {"", "calloc"} =>
    \A c \in Cells :
      Value(acc, c) - SumRates({pr \in OwnerPairs : OwnerCell(pr) = c})
        = SumRates({pr \in OwnerPairs :
                      /\ Port(pr[1]).parent_osdev # NULL
                      /\ Port(pr[2]).parent_osdev # NULL
                      /\ Index(Port(pr[1]).parent_osdev) >= 0
                      /\ Index(Port(pr[2]).parent_osdev) >= 0
                      /\ ParentCell(pr) = c})

\* the Builder accumulated a pair of two subdevice ports with registered
\* parents and a pair with a port owned by the device itself
C12_Witness ==
  /\ step \notin {"", "calloc"}
  /\ ParentPairs # {}
  /\ \E pr \in OwnerPairs : Port(pr[1]).parent_osdev = NULL \/ Port(pr[2]).parent_osdev = NULL

\* C13: the Builder frees the matrix, commits nothing and returns 0 when no
\* matched pair passed the technology filter, and whenever a matched pair
\* passed the filter and added its rate to a cell the Builder goes on to the
\* fill and the commit instead of discarding the matrix
C13_DiscardOnlyWithoutData ==
  step \notin {"", "calloc"} =>
    /\ PortPairs = {} =>
         /\ step = "nobw"
         /\ connectRet = 0
         /\ dataset # "committed"
         /\ heap.bws = "freed"
    /\ OwnerPairs # {} => step # "nobw"

\* C14: every cell the synthetic fill writes has its row and its column
\* strictly below N, the registry size the matrix was allocated with: every
\* entry visited at index i with recorded subdevice count c has i + c < N
C14_FillInBounds ==
  /\ \A f \in filled : f[1] < oarray.nr /\ f[2] < oarray.nr
  /\ filled # {} =>
       \A i \in FillVisited(0) :
         i + SubdevicesOf(oarray.objs[i + 1]) < oarray.nr

\* registry entries a and b are the same unit, a device and one of its own
\* subdevices, or two subdevices of one device
CoLocated(a, b) ==
  /\ a < oarray.nr /\ b < oarray.nr
  /\ IsObject(oarray.objs[a + 1]) /\ IsObject(oarray.objs[b + 1])
  /\ OwnerOf(oarray.objs[a + 1]) = OwnerOf(oarray.objs[b + 1])

\* the subdevices of the entry at index i registered right after it
RECURSIVE FollowingSubs(_, _)
FollowingSubs(i, n) ==
  IF /\ i + n + 1 < oarray.nr
     /\ IsSubObj(oarray.objs[i + n + 2])
     /\ OwnerOf(oarray.objs[i + n + 2]) = oarray.objs[i + 1]
  THEN FollowingSubs(i, n + 1) ELSE n

\* C15: the fill writes the sentinel only in cells whose two registry entries
\* are co-located, no cell relating units of two devices, and the count
\* recorded on every visited device is the number of its subdevices
\* registered right after it
C15_FillCoLocated ==
  filled # {} =>
    /\ \A f \in filled : CoLocated(f[1], f[2])
    /\ \A i \in FillVisited(0) :
         SubdevicesOf(oarray.objs[i + 1]) = FollowingSubs(i, 0)

\* C16: over the captures of the devices of a pass, nr never exceeds
\* nr_allocated and the slot an iteration of the capture loop writes lies
\* below nr_allocated; the buffer never shrinks and no capture changes an
\* entry retained before it; a call that ends before the capture loop (the
\* growth failed) retains no port, and leaves the registry as it was unless
\* the buffer grew
C16_PortRegistry ==
  /\ [](/\ hports.nr <= hports.nr_allocated
        /\ Len(hports.ports) = hports.nr_allocated
        /\ (pc = "port" => hports.nr + (nr_new - pidx) <= hports.nr_allocated))
  /\ [][(pc \in {"harvest", "port"}) =>
          (/\ hports'.nr_allocated >= hports.nr_allocated
           /\ hports'.nr >= hports.nr
           /\ \A x \in 1..hports.nr : hports'.ports[x] = hports.ports[x]
           /\ (pc = "harvest" /\ pc' = "attach") =>
                (/\ hports'.nr = hports.nr
                 /\ (hports'.nr_allocated = hports.nr_allocated => hports' = hports)))]_vars

\* the buffer grew a second time and a port was captured past the retained ones
C16_Witness ==
  /\ hports.nr_allocated > PortGrowthFactor
  /\ hports.nr > PortGrowthFactor
  /\ \A x \in 1..(PortGrowthFactor - 2) : hports.ports[x] = NominalPort(IF x = 1 THEN 1 ELSE 2, x)

====
